---- MODULE Spec2Model ----
(***************************************************************************)
(* Model of mod-server-auto-shutdown (src/src/ServerAutoShutdown.cpp):     *)
(* ServerAutoShutdown::Init, ServerAutoShutdown::OnUpdate and the helper   *)
(* GetNextResetTime, together with the TaskScheduler queue and the host    *)
(* World calls they drive.                                                 *)
(*                                                                         *)
(* Strings are sequences of one-character strings.  Wall-clock instants    *)
(* are epoch seconds; the scheduler clock is in milliseconds.  Local time  *)
(* is a fixed offset from UTC (no DST), so every day has DAY seconds.      *)
(***************************************************************************)
EXTENDS Integers, Sequences, FiniteSets, TLC

(***************************************************************************)
(* Program constants                                                       *)
(***************************************************************************)
DAY == 86400
HOUR == 3600
MINUTE == 60
IN_MILLISECONDS == 1000
SHUTDOWN_EXIT_CODE == 0
QuickLimit == 10
DefaultPreAnnounce == 3600
UINT8_MAX == 255
\* A uint32 is held as its two 16-bit halves, [hi, lo], since the value
\* range of the model checker's integers ends below 2^32.
LIMB == 65536

(***************************************************************************)
(* uint32 arithmetic                                                       *)
(***************************************************************************)
\* The uint32 with value n, for 0 <= n < 2^31.
U32(n) == [ hi |-> (n \div LIMB) % LIMB, lo |-> n % LIMB ]

UINT32_MAX == [ hi |-> LIMB - 1, lo |-> LIMB - 1 ]

\* a - b and a + b in uint32, wrapping around modulo 2^32.
U32Sub(a, b) ==
    LET borrow == IF a.lo < b.lo THEN 1 ELSE 0
    IN  [ hi |-> (a.hi - b.hi - borrow) % LIMB, lo |-> (a.lo - b.lo) % LIMB ]

U32Add(a, b) ==
    LET carry == (a.lo + b.lo) \div LIMB
    IN  [ hi |-> (a.hi + b.hi + carry) % LIMB, lo |-> (a.lo + b.lo) % LIMB ]

U32Less(a, b) == a.hi < b.hi \/ (a.hi = b.hi /\ a.lo < b.lo)

U32Leq(a, b) == ~U32Less(b, a)

\* The uint32s below 2^31 are the ones with an integer value in the model.
HasVal(a) == a.hi < LIMB \div 2

Val(a) == a.hi * LIMB + a.lo

(***************************************************************************)
(* Bounds of the model                                                     *)
(***************************************************************************)
MaxInits == 3
MaxTicks == 2

(***************************************************************************)
(* Inputs                                                                  *)
(***************************************************************************)
\* First instant (UTC midnight) of the day the wall clock is read in.
Day0 == 20000 * DAY

\* Offsets of local time from UTC, in seconds.
GmtOffsets == {0, 0 - 5 * HOUR}

\* Values of ServerAutoShutdown.Time.
T_0400 == << "0", "4", ":", "0", "0", ":", "0", "0" >>
T_400 == << "4", ":", "0", ":", "0" >>
T_0400short == << "0", "4", ":", "0", "0" >>
T_ab == << "a", "b", ":", "0", "0", ":", "0", "0" >>
T_25 == << "2", "5", ":", "0", "0", ":", "0", "0" >>
T_min60 == << "0", "0", ":", "6", "0", ":", "0", "0" >>
T_sec60 == << "0", "0", ":", "0", "0", ":", "6", "0" >>
T_256 == << "2", "5", "6", ":", "0", "0", ":", "0", "0" >>

\* The inputs of the interleaved runs: values of ServerAutoShutdown.Time (a
\* valid one, one with two components, one that is no number, one out of
\* range), of ServerAutoShutdown.PreAnnounce.Seconds, and local times of day
\* at which Init reads the wall clock.
TimeStrings == { T_0400, T_0400short, T_ab, T_25 }

PreAnnounceValues == { U32(1800), U32(DefaultPreAnnounce) }

NowLocal == { 3 * HOUR, 4 * HOUR - 500 }

\* Values of diff passed to OnUpdate, in milliseconds.
DiffValues ==
    { 0, IN_MILLISECONDS, 1800 * IN_MILLISECONDS,
      (DAY + QuickLimit) * IN_MILLISECONDS }

\* Values of diff in the runs in which the host never stops calling OnUpdate.
PendingDiffValues ==
    { 600 * IN_MILLISECONDS, 1800 * IN_MILLISECONDS,
      (DAY + QuickLimit) * IN_MILLISECONDS }

\* The inputs of the single-call runs: "HH:MM:SS" for a grid of components,
\* the strings above, offsets around the clamp, and an instant near every
\* hour of the day.
DigitChar(d) ==
    CASE d = 0 -> "0" [] d = 1 -> "1" [] d = 2 -> "2" [] d = 3 -> "3"
      [] d = 4 -> "4" [] d = 5 -> "5" [] d = 6 -> "6" [] d = 7 -> "7"
      [] d = 8 -> "8" [] d = 9 -> "9"

Decimal(n) ==
    IF n < 100
    THEN << DigitChar(n \div 10), DigitChar(n % 10) >>
    ELSE << DigitChar(n \div 100), DigitChar((n \div 10) % 10),
            DigitChar(n % 10) >>

TimeString(h, m, sec) ==
    Decimal(h) \o << ":" >> \o Decimal(m) \o << ":" >> \o Decimal(sec)

WideTimeStrings ==
    { TimeString(h, m, sec) :
        h \in { 0, 4, 12, 23, 24, 255 }, m \in { 0, 30, 59, 60 },
        sec \in { 0, 1, 59, 60 } }
    \cup { T_0400, T_400, T_0400short, T_ab, T_25, T_min60, T_sec60, T_256 }

WidePreAnnounceValues ==
    { U32(0), U32(1), U32(500), U32(1800), U32(DefaultPreAnnounce),
      U32(DAY), U32(DAY + 1), U32(90000), UINT32_MAX }

WideNowLocal ==
    { k * HOUR + d : k \in 0..23, d \in { 0, 1, 3100, 3590, 3591, 3599 } }

(***************************************************************************)
(* acore::Tokenize(str, sep, keepEmpty = false)                            *)
(***************************************************************************)
RECURSIVE TokenizeFrom(_, _, _, _)
TokenizeFrom(str, sep, i, cur) ==
    IF i > Len(str)
    THEN IF cur # << >> THEN << cur >> ELSE << >>
    ELSE IF str[i] = sep
         THEN (IF cur # << >> THEN << cur >> ELSE << >>)
              \o TokenizeFrom(str, sep, i + 1, << >>)
         ELSE TokenizeFrom(str, sep, i + 1, Append(cur, str[i]))

Tokenize(str, sep) == TokenizeFrom(str, sep, 1, << >>)

(***************************************************************************)
(* acore::StringTo<uint8>(token): std::from_chars in base 10; nullopt      *)
(* unless the whole token is digits and the value fits in a uint8.         *)
(***************************************************************************)
Digits == { "0", "1", "2", "3", "4", "5", "6", "7", "8", "9" }

DigitValue(c) ==
    CASE c = "0" -> 0 [] c = "1" -> 1 [] c = "2" -> 2 [] c = "3" -> 3
      [] c = "4" -> 4 [] c = "5" -> 5 [] c = "6" -> 6 [] c = "7" -> 7
      [] c = "8" -> 8 [] c = "9" -> 9

NullOpt == -1

RECURSIVE DecimalValue(_, _)
DecimalValue(tok, n) ==
    IF n = 0 THEN 0
    ELSE 10 * DecimalValue(tok, n - 1) + DigitValue(tok[n])

StringToUint8(tok) ==
    IF tok = << >> \/ \E i \in 1..Len(tok) : tok[i] \notin Digits
    THEN NullOpt
    ELSE IF DecimalValue(tok, Len(tok)) > UINT8_MAX
         THEN NullOpt
         ELSE DecimalValue(tok, Len(tok))

\* The lambda CheckTime({0, 1, 2}).
CheckTime(tokens) ==
    \A i \in 1..3 : StringToUint8(tokens[i]) # NullOpt

(***************************************************************************)
(* Local calendar time: TimeBreakdown (localtime_r) and mktime, for a      *)
(* zone at a fixed offset gmtoff from UTC.  mktime normalises fields that  *)
(* are out of range, so it is the sum of the fields from local midnight.   *)
(***************************************************************************)
LocalMidnight(time, off) == time - ((time + off) % DAY)

MkTime(time, off, hour, minute, second) ==
    LocalMidnight(time, off) + hour * HOUR + minute * MINUTE + second

TimeOfDay(time, off) == (time + off) % DAY

\* Variant: the result moves to the next day whether or not it has passed.
GetNextResetTime_AlwaysRoll(time, off, hour, minute, second) ==
    MkTime(time, off, hour, minute, second) + DAY

\* Variant: an instant equal to now does not move to the next day.
GetNextResetTime_Strict(time, off, hour, minute, second) ==
    LET midnightLocal == MkTime(time, off, hour, minute, second)
    IN  IF midnightLocal < time THEN midnightLocal + DAY ELSE midnightLocal

GetNextResetTime(time, off, hour, minute, second) ==
    LET midnightLocal == MkTime(time, off, hour, minute, second)
    IN  IF midnightLocal <= time THEN midnightLocal + DAY ELSE midnightLocal


(***************************************************************************)
(* State                                                                   *)
(***************************************************************************)
VARIABLES
    isEnableModule,  \* ServerAutoShutdown::_isEnableModule
    queue,           \* scheduler: pending tasks, ordered by their end time
    schedNow,        \* scheduler: its own clock _now, in milliseconds
    hostShutdown,    \* World: the shutdown armed by ShutdownServ, if any
    gmtoff,          \* offset of the host's local time from UTC
    initCount,       \* number of calls of Init so far
    tickCount,       \* number of calls of OnUpdate counted against MaxTicks
    op,              \* the handler that ran last
    last,            \* the locals of the most recent call of Init
    calls,           \* the calls into sWorld made by the handler that ran last
    fires,           \* fired tasks: who enqueued them, and after which Init
    sent             \* the calls into sWorld by tasks since the last Init

vars ==
    << isEnableModule, queue, schedNow, hostShutdown, gmtoff, initCount,
       tickCount, op, last, calls, fires, sent >>

NoneSent == [ broadcasts |-> 0, shutdowns |-> 0 ]

NoShutdown == [ pending |-> FALSE, delay |-> U32(0), exitCode |-> 0 ]

NoLocals ==
    [ path |-> "none", before |-> "none", enabled |-> FALSE,
      configTime |-> << >>,
      hour |-> 0, minute |-> 0, second |-> 0, nowTime |-> 0,
      resetTime |-> 0, nextResetTime |-> 0, diffToShutdown |-> U32(0),
      configSeconds |-> U32(0), clampedSeconds |-> U32(0),
      preAnnounceSeconds |-> U32(0), timeToPreAnnounce |-> U32(0),
      diffToPreAnnounce |-> U32(0) ]

(***************************************************************************)
(* TaskScheduler: CancelAll, Schedule, Update                              *)
(***************************************************************************)
\* Variant: the pending tasks stay in the queue.
CancelAll_Keep(q) == q

CancelAll(q) == << >>

\* A point on the scheduler's clock as << seconds / 2^16, seconds % 2^16,
\* milliseconds >>, and the order of two such points.
PointOf(ms) ==
    << (ms \div IN_MILLISECONDS) \div LIMB, (ms \div IN_MILLISECONDS) % LIMB,
       ms % IN_MILLISECONDS >>

PointLeq(a, b) ==
    \/ a[1] < b[1]
    \/ a[1] = b[1] /\ a[2] < b[2]
    \/ a[1] = b[1] /\ a[2] = b[2] /\ a[3] <= b[3]

\* The end time of a task: _now at Schedule plus Seconds(delay).
\* Variant: the delay is left out of the end time.
EndOf_Early(task) == PointOf(task.start)

EndOf(task) ==
    LET from == PointOf(task.start)
        lo == from[2] + task.delay.lo
    IN  << from[1] + task.delay.hi + lo \div LIMB, lo % LIMB, from[3] >>

\* Schedule(Seconds(delay), task): the task is inserted behind the tasks
\* that end no later.
RECURSIVE InsertTask(_, _)
InsertTask(q, task) ==
    IF q = << >> THEN << task >>
    ELSE IF PointLeq(EndOf(Head(q)), EndOf(task))
         THEN << Head(q) >> \o InsertTask(Tail(q), task)
         ELSE << task >> \o q

\* Variant: the shutdown is enqueued as a second task.
Schedule_Twice(q, now, delay, lead, gen) ==
    InsertTask(InsertTask(q, [ start |-> now, delay |-> delay, lead |-> lead,
                               gen |-> gen ]),
               [ start |-> now, delay |-> U32Add(delay, lead), lead |-> U32(0),
                 gen |-> gen ])

Schedule(q, now, delay, lead, gen) ==
    InsertTask(q, [ start |-> now, delay |-> delay, lead |-> lead,
                    gen |-> gen ])

\* Dispatch: the tasks whose end time is not after _now, in queue order.
\* Variant: a task runs only once its end time lies in the past.
RECURSIVE DueTasks_Strict(_, _)
DueTasks_Strict(q, now) ==
    IF q = << >> \/ PointLeq(PointOf(now), EndOf(Head(q))) THEN << >>
    ELSE << Head(q) >> \o DueTasks_Strict(Tail(q), now)

RECURSIVE DueTasks(_, _)
DueTasks(q, now) ==
    IF q = << >> \/ ~PointLeq(EndOf(Head(q)), PointOf(now)) THEN << >>
    ELSE << Head(q) >> \o DueTasks(Tail(q), now)

\* Variant: a task that has run stays in the queue.
RemainingTasks_Keep(q, now) == q

RemainingTasks(q, now) ==
    SubSeq(q, Len(DueTasks(q, now)) + 1, Len(q))

(***************************************************************************)
(* sWorld: ShutdownCancel, SendServerMessage, ShutdownServ                 *)
(***************************************************************************)
ShutdownCancel(h) == NoShutdown

ShutdownServ(h, delay, exitCode) ==
    [ pending |-> TRUE, delay |-> delay, exitCode |-> exitCode ]

\* The body of the task scheduled by Init: broadcast, then request shutdown.
\* Variant: the shutdown is requested before the broadcast.
TaskCalls_ShutdownFirst(task) ==
    << [ call |-> "ShutdownServ", arg |-> task.lead,
         exitCode |-> SHUTDOWN_EXIT_CODE ],
       [ call |-> "SendServerMessage", arg |-> task.lead, exitCode |-> 0 ] >>

TaskCalls(task) ==
    << [ call |-> "SendServerMessage", arg |-> task.lead, exitCode |-> 0 ],
       [ call |-> "ShutdownServ", arg |-> task.lead,
         exitCode |-> SHUTDOWN_EXIT_CODE ] >>

RECURSIVE FiredCalls(_)
FiredCalls(due) ==
    IF due = << >> THEN << >>
    ELSE TaskCalls(Head(due)) \o FiredCalls(Tail(due))

RECURSIVE FiredShutdown(_, _)
FiredShutdown(h, due) ==
    IF due = << >> THEN h
    ELSE FiredShutdown(ShutdownServ(h, Head(due).lead, SHUTDOWN_EXIT_CODE),
                       Tail(due))

(***************************************************************************)
(* ServerAutoShutdown::Init, step by step                                  *)
(***************************************************************************)
\* Lines 86-100: the range checks that clear _isEnableModule.
RangeError(hour, minute, second) ==
    hour > 23 \/ minute >= 60 \/ second >= 60

\* Lines 104 and 112: uint32 diffToShutdown = nextResetTime - uint32(nowTime).
DiffToShutdown(nextResetTime, nowTime) ==
    U32Sub(U32(nextResetTime), U32(nowTime))

\* Lines 106-110: a shutdown less than 10 seconds away moves to the next day.
\* Variant: no guard.
QuickGuard_None(nextResetTime, nowTime) == nextResetTime

QuickGuard(nextResetTime, nowTime) ==
    IF U32Less(DiffToShutdown(nextResetTime, nowTime), U32(QuickLimit))
    THEN nextResetTime + DAY
    ELSE nextResetTime

\* Lines 125-130: an offset of more than a day becomes one hour.
\* Variant: an offset of more than a day becomes one day.
ClampPreAnnounce_ToDay(configSeconds) ==
    IF U32Less(U32(DAY), configSeconds) THEN U32(DAY) ELSE configSeconds

ClampPreAnnounce(configSeconds) ==
    IF U32Less(U32(DAY), configSeconds)
    THEN U32(DefaultPreAnnounce)
    ELSE configSeconds

\* Lines 132-141: when and with what lead time the announce task runs.
\* Variant: the collapse case keeps the configured lead time.
PreAnnounce_KeepLead(nextResetTime, nowTime, seconds) ==
    LET diffToShutdown == DiffToShutdown(nextResetTime, nowTime)
        timeToPreAnnounce == U32Sub(U32(nextResetTime), seconds)
        diffToPreAnnounce == U32Sub(timeToPreAnnounce, U32(nowTime))
    IN  IF U32Less(diffToShutdown, seconds)
        THEN [ timeToPreAnnounce |-> U32Add(U32(nowTime), U32(1)),
               diffToPreAnnounce |-> U32(1),
               preAnnounceSeconds |-> seconds ]
        ELSE [ timeToPreAnnounce |-> timeToPreAnnounce,
               diffToPreAnnounce |-> diffToPreAnnounce,
               preAnnounceSeconds |-> seconds ]

\* Variant: the collapse case also takes an offset equal to diffToShutdown.
PreAnnounce_Leq(nextResetTime, nowTime, seconds) ==
    LET diffToShutdown == DiffToShutdown(nextResetTime, nowTime)
        timeToPreAnnounce == U32Sub(U32(nextResetTime), seconds)
        diffToPreAnnounce == U32Sub(timeToPreAnnounce, U32(nowTime))
    IN  IF U32Leq(diffToShutdown, seconds)
        THEN [ timeToPreAnnounce |-> U32Add(U32(nowTime), U32(1)),
               diffToPreAnnounce |-> U32(1),
               preAnnounceSeconds |-> diffToShutdown ]
        ELSE [ timeToPreAnnounce |-> timeToPreAnnounce,
               diffToPreAnnounce |-> diffToPreAnnounce,
               preAnnounceSeconds |-> seconds ]

\* Variant: no collapse case; the subtractions go to the scheduler as they are.
PreAnnounce_NoCollapse(nextResetTime, nowTime, seconds) ==
    LET timeToPreAnnounce == U32Sub(U32(nextResetTime), seconds)
    IN  [ timeToPreAnnounce |-> timeToPreAnnounce,
          diffToPreAnnounce |-> U32Sub(timeToPreAnnounce, U32(nowTime)),
          preAnnounceSeconds |-> seconds ]

PreAnnounce(nextResetTime, nowTime, seconds) ==
    LET diffToShutdown == DiffToShutdown(nextResetTime, nowTime)
        timeToPreAnnounce == U32Sub(U32(nextResetTime), seconds)
        diffToPreAnnounce == U32Sub(timeToPreAnnounce, U32(nowTime))
    IN  IF U32Less(diffToShutdown, seconds)
        THEN [ timeToPreAnnounce |-> U32Add(U32(nowTime), U32(1)),
               diffToPreAnnounce |-> U32(1),
               preAnnounceSeconds |-> diffToShutdown ]
        ELSE [ timeToPreAnnounce |-> timeToPreAnnounce,
               diffToPreAnnounce |-> diffToPreAnnounce,
               preAnnounceSeconds |-> seconds ]

\* The locals of a call of Init that reads the given configuration at the
\* given instant; path names the place where the call returns.
InitLocals(enabled, configTime, configSeconds, nowTime, off) ==
    LET tokens == Tokenize(configTime, ":")
    IN  IF ~enabled
        THEN [ NoLocals EXCEPT !.path = "disabled" ]
        ELSE IF Len(tokens) # 3
        THEN [ NoLocals EXCEPT !.path = "tokens", !.enabled = TRUE,
                               !.configTime = configTime ]
        ELSE IF ~CheckTime(tokens)
        THEN [ NoLocals EXCEPT !.path = "convert", !.enabled = TRUE,
                               !.configTime = configTime ]
        ELSE
            LET hour == StringToUint8(tokens[1])
                minute == StringToUint8(tokens[2])
                second == StringToUint8(tokens[3])
                resetTime == GetNextResetTime(nowTime, off, hour, minute, second)
                nextResetTime == QuickGuard(resetTime, nowTime)
                seconds == ClampPreAnnounce(configSeconds)
                pre == PreAnnounce(nextResetTime, nowTime, seconds)
            IN  [ path |-> IF RangeError(hour, minute, second)
                           THEN "range" ELSE "armed",
                  before |-> "none",
                  enabled |-> TRUE,
                  configTime |-> configTime,
                  hour |-> hour, minute |-> minute, second |-> second,
                  nowTime |-> nowTime,
                  resetTime |-> resetTime,
                  nextResetTime |-> nextResetTime,
                  diffToShutdown |-> DiffToShutdown(nextResetTime, nowTime),
                  configSeconds |-> configSeconds,
                  clampedSeconds |-> seconds,
                  preAnnounceSeconds |-> pre.preAnnounceSeconds,
                  timeToPreAnnounce |-> pre.timeToPreAnnounce,
                  diffToPreAnnounce |-> pre.diffToPreAnnounce ]

\* Lines 50-61 and 75-80: the calls that return before the scheduling part.
ReturnsEarly(locals) == locals.path \in { "disabled", "tokens", "convert" }

\* Lines 48-100: _isEnableModule when Init returns.
\* Variant: a component out of range does not disable the module.
EnabledAfter_Range(locals) == locals.path \in { "armed", "range" }

EnabledAfter(locals) == locals.path = "armed"

\* A call of Init that reads its configuration and the wall clock from the
\* given sets.
InitWith(times, offsets, nows) ==
    /\ \E enabled \in BOOLEAN, configTime \in times,
          configSeconds \in offsets, nowLocal \in nows :
          LET nowTime == Day0 + nowLocal - gmtoff
              locals == InitLocals(enabled, configTime, configSeconds,
                                   nowTime, gmtoff)
          IN  /\ last' = [ locals EXCEPT !.before = last.path ]
              /\ isEnableModule' = EnabledAfter(locals)
              /\ IF ReturnsEarly(locals)
                 THEN /\ calls' = << >>
                      /\ UNCHANGED << queue, hostShutdown >>
                 ELSE /\ queue' = Schedule(CancelAll(queue), schedNow,
                                           locals.diffToPreAnnounce,
                                           locals.preAnnounceSeconds,
                                           initCount + 1)
                      /\ hostShutdown' = ShutdownCancel(hostShutdown)
                      /\ calls' = << [ call |-> "ShutdownCancel",
                                       arg |-> U32(0), exitCode |-> 0 ] >>
    /\ initCount' = initCount + 1
    /\ op' = "Init"
    /\ sent' = NoneSent
    /\ UNCHANGED << schedNow, gmtoff, tickCount, fires >>

ServerAutoShutdown_Init ==
    /\ initCount < MaxInits
    /\ InitWith(TimeStrings, PreAnnounceValues, NowLocal)

\* The first call of Init, at process start, over the wide inputs.
ServerAutoShutdown_FirstInit ==
    /\ initCount = 0
    /\ InitWith(WideTimeStrings, WidePreAnnounceValues, WideNowLocal)

(***************************************************************************)
(* ServerAutoShutdown::OnUpdate                                            *)
(***************************************************************************)
\* The number of calls of the given name in a sequence of calls.
CountCalls(cs, name) ==
    Cardinality({ i \in 1..Len(cs) : cs[i].call = name })

\* A call of OnUpdate with diff from the given set.
UpdateWith(diffs) ==
    /\ \E diff \in diffs :
          IF ~isEnableModule
          THEN /\ calls' = << >>
               /\ UNCHANGED << queue, schedNow, hostShutdown, fires, sent >>
          ELSE LET now == schedNow + diff
                   due == DueTasks(queue, now)
               IN  /\ schedNow' = now
                   /\ queue' = RemainingTasks(queue, now)
                   /\ calls' = FiredCalls(due)
                   /\ hostShutdown' = FiredShutdown(hostShutdown, due)
                   /\ fires' = fires \cup
                          { [ gen |-> due[i].gen, after |-> initCount ] :
                            i \in 1..Len(due) }
                   /\ sent' =
                          [ broadcasts |-> sent.broadcasts +
                                CountCalls(FiredCalls(due), "SendServerMessage"),
                            shutdowns |-> sent.shutdowns +
                                CountCalls(FiredCalls(due), "ShutdownServ") ]
    /\ op' = "OnUpdate"
    /\ UNCHANGED << isEnableModule, gmtoff, initCount, last >>

ServerAutoShutdown_OnUpdate ==
    /\ tickCount < MaxTicks
    /\ tickCount' = tickCount + 1
    /\ UpdateWith(DiffValues)

\* The host goes on calling OnUpdate, with time passing between the calls,
\* for as long as a task is pending in an enabled module.
ServerAutoShutdown_OnUpdatePending ==
    /\ isEnableModule
    /\ queue # << >>
    /\ tickCount' = tickCount
    /\ UpdateWith(PendingDiffValues)

(***************************************************************************)
(* Specification                                                           *)
(***************************************************************************)
Init ==
    /\ isEnableModule = FALSE
    /\ queue = << >>
    /\ schedNow = 0
    /\ hostShutdown = NoShutdown
    /\ gmtoff \in GmtOffsets
    /\ initCount = 0
    /\ tickCount = 0
    /\ op = "none"
    /\ last = NoLocals
    /\ calls = << >>
    /\ fires = { }
    /\ sent = NoneSent

Next == ServerAutoShutdown_Init \/ ServerAutoShutdown_OnUpdate

Spec == Init /\ [][Next]_vars

\* One call of Init over the wide inputs.
FirstInitNext == ServerAutoShutdown_FirstInit

FirstInitSpec == Init /\ [][FirstInitNext]_vars

\* The interleaved runs in which the host never stops calling OnUpdate.
LiveNext ==
    \/ ServerAutoShutdown_Init
    \/ ServerAutoShutdown_OnUpdatePending

LiveSpec ==
    Init /\ [][LiveNext]_vars /\ WF_vars(ServerAutoShutdown_OnUpdatePending)

(***************************************************************************)
(* Properties                                                              *)
(***************************************************************************)
\* The state right after a call of Init, by the place where it returned.
AfterInit(paths) == op = "Init" /\ last.path \in paths

\* The tasks in the queue that the most recent call of Init did not enqueue.
StaleTasks == { i \in 1..Len(queue) : queue[i].gen < initCount }

\* The tasks in the queue that the most recent call of Init enqueued.
NewTasks == { i \in 1..Len(queue) : queue[i].gen = initCount }

\* The configured time of day of the most recent call of Init, in seconds.
TargetOfDay == last.hour * HOUR + last.minute * MINUTE + last.second

\* C1: an Init that reads an enabled configuration whose time components
\* parse but are out of range leaves the module disabled and enqueues no
\* task, as an Init that reads a malformed time does.
C1_RangeErrorSchedulesNothing ==
    AfterInit({ "range" }) =>
        /\ ~isEnableModule
        /\ NewTasks = { }
        /\ calls = << >>

\* C2: a task enqueued by a call of Init never fires after a later call of
\* Init has returned: every task that fires was enqueued by the most recent
\* call of Init.
C2_NoStaleTaskFires ==
    \A f \in fires : f.gen = f.after

\* C2 witness: OnUpdate has run after a later Init returned while a task of
\* an earlier Init was still in the queue, and another run of OnUpdate fired
\* a task.
C2_Witness ==
    /\ op = "OnUpdate"
    /\ StaleTasks # { }
    /\ fires # { }

\* C3: right after every call of Init, whatever it read, the queue holds no
\* task that an earlier call of Init enqueued.
C3_NoTaskOutlivesInit ==
    op = "Init" => StaleTasks = { }

\* C4: every call of Init calls ShutdownCancel exactly once, and no shutdown
\* armed by a fired task is pending in the host when Init returns.
C4_InitCancelsHostShutdown ==
    op = "Init" =>
        /\ Cardinality({ i \in 1..Len(calls) :
                           calls[i].call = "ShutdownCancel" }) = 1
        /\ ~hostShutdown.pending

\* C5: for a valid time of day, GetNextResetTime returns an instant r with
\* now < r <= now + DAY whose local time of day is the configured one.
C5_NextResetTimeWithinADay ==
    last.path = "armed" =>
        /\ last.nowTime < last.resetTime
        /\ last.resetTime <= last.nowTime + DAY
        /\ TimeOfDay(last.resetTime, gmtoff) = TargetOfDay

\* C5 witness: both outcomes of GetNextResetTime are among the states: the
\* configured time of day is still ahead today, or it has passed.
C5_Witness ==
    /\ last.path = "armed"
    /\ TargetOfDay < TimeOfDay(last.nowTime, gmtoff)
    /\ last.resetTime - last.nowTime > HOUR

\* C6: when the configured time of day is the time of day of now,
\* GetNextResetTime returns now + DAY.
C6_SameTimeOfDayRollsOver ==
    (last.path = "armed" /\ TargetOfDay = TimeOfDay(last.nowTime, gmtoff)) =>
        last.resetTime = last.nowTime + DAY

C6_Witness ==
    /\ last.path = "armed"
    /\ TargetOfDay = TimeOfDay(last.nowTime, gmtoff)
    /\ last.resetTime # last.nowTime

\* C7: when Init arms the module, the shutdown instant is at least 10 and at
\* most DAY + 9 seconds after now; it is the next occurrence, moved by
\* exactly one day if that is less than 10 seconds away, and it keeps the
\* configured time of day.
C7_QuickRestartGuard ==
    last.path = "armed" =>
        /\ HasVal(last.diffToShutdown)
        /\ Val(last.diffToShutdown) = last.nextResetTime - last.nowTime
        /\ Val(last.diffToShutdown) >= QuickLimit
        /\ Val(last.diffToShutdown) <= DAY + QuickLimit - 1
        /\ last.nextResetTime =
               IF last.resetTime - last.nowTime < QuickLimit
               THEN last.resetTime + DAY
               ELSE last.resetTime
        /\ TimeOfDay(last.nextResetTime, gmtoff) = TargetOfDay

\* C7 witness: the next occurrence was less than 10 seconds away.
C7_Witness ==
    /\ last.path = "armed"
    /\ last.resetTime - last.nowTime < QuickLimit
    /\ last.nextResetTime = last.resetTime + DAY

\* C8: an offset of more than DAY is replaced by 3600 and Init goes on to
\* enqueue its task; an offset of at most DAY is kept; the lead time of the
\* task is at most DAY.
C8_PreAnnounceClamp ==
    AfterInit({ "armed", "range" }) =>
        /\ last.clampedSeconds =
               IF U32Less(U32(DAY), last.configSeconds)
               THEN U32(DefaultPreAnnounce)
               ELSE last.configSeconds
        /\ NewTasks # { }
        /\ \A i \in NewTasks : U32Leq(queue[i].lead, U32(DAY))

C8_Witness ==
    /\ AfterInit({ "armed" })
    /\ U32Less(U32(DAY), last.configSeconds)
    /\ last.clampedSeconds = U32(DefaultPreAnnounce)
    /\ NewTasks # { }

\* C9: if diffToShutdown is less than the (clamped) offset, the task is
\* enqueued with a delay of 1 second and a lead time of diffToShutdown;
\* otherwise with a delay of diffToShutdown minus the offset and a lead time
\* of the offset.
C9_CollapseCase ==
    AfterInit({ "armed", "range" }) =>
        /\ HasVal(last.diffToShutdown)
        /\ HasVal(last.clampedSeconds)
        /\ NewTasks # { }
        /\ \A i \in NewTasks :
              /\ HasVal(queue[i].delay)
              /\ IF Val(last.diffToShutdown) < Val(last.clampedSeconds)
                 THEN /\ Val(queue[i].delay) = 1
                      /\ queue[i].lead = last.diffToShutdown
                 ELSE /\ Val(queue[i].delay) =
                             Val(last.diffToShutdown) - Val(last.clampedSeconds)
                      /\ queue[i].lead = last.clampedSeconds

\* C9 witness: diffToShutdown = 500 and an offset of 3600.
C9_Witness ==
    /\ AfterInit({ "armed" })
    /\ last.diffToShutdown = U32(500)
    /\ last.clampedSeconds = U32(DefaultPreAnnounce)
    /\ Len(queue) = 1
    /\ queue[1].delay = U32(1)
    /\ queue[1].lead = U32(500)

\* C10 as stated: for every Init that arms the module, the delay of the
\* task plus its lead time is diffToShutdown.
C10_DelayPlusLeadIsDiff ==
    AfterInit({ "armed" }) =>
        \A i \in NewTasks :
            Val(queue[i].delay) + Val(queue[i].lead) = Val(last.diffToShutdown)

\* C10 amended: the delay of the task plus its lead time is diffToShutdown
\* when diffToShutdown is at least the (clamped) offset, and
\* diffToShutdown + 1 in the collapse case.
C10_DelayPlusLeadAmended ==
    AfterInit({ "armed", "range" }) =>
        /\ NewTasks # { }
        /\ \A i \in NewTasks :
              /\ HasVal(queue[i].delay) /\ HasVal(queue[i].lead)
              /\ Val(queue[i].delay) + Val(queue[i].lead) =
                     IF U32Less(last.diffToShutdown, last.clampedSeconds)
                     THEN Val(last.diffToShutdown) + 1
                     ELSE Val(last.diffToShutdown)

\* C10 witness: both cases arm the module, here the collapse case.
C10_Witness ==
    /\ AfterInit({ "armed" })
    /\ U32Less(last.diffToShutdown, last.clampedSeconds)
    /\ \E i \in NewTasks :
          Val(queue[i].delay) + Val(queue[i].lead) = Val(last.diffToShutdown) + 1

\* The paths of Init that leave the module disabled.
Failed == { "disabled", "tokens", "convert", "range" }

\* A step that is a call of OnUpdate which does not move the scheduler's
\* clock: diff is 0, or the module is disabled.
ZeroTick == tickCount' = tickCount + 1 /\ schedNow' = schedNow

\* C11: for a valid time of day and any uint32 offset,
\* now <= preAnnounceAt <= shutdownAt and the delay of the enqueued task is
\* at most diffToShutdown: no wrapped difference reaches the scheduler.
C11_PreAnnounceBeforeShutdown ==
    AfterInit({ "armed" }) =>
        /\ HasVal(last.timeToPreAnnounce)
        /\ last.nowTime <= Val(last.timeToPreAnnounce)
        /\ Val(last.timeToPreAnnounce) <= last.nextResetTime
        /\ HasVal(last.diffToPreAnnounce)
        /\ Val(last.diffToPreAnnounce) <= Val(last.diffToShutdown)
        /\ NewTasks # { }
        /\ \A i \in NewTasks : queue[i].delay = last.diffToPreAnnounce

\* C11 witness: the offset is above diffToShutdown, so that the difference
\* of the two wraps around.
C11_Witness ==
    /\ AfterInit({ "armed" })
    /\ ~HasVal(U32Sub(last.diffToShutdown, last.clampedSeconds))
    /\ \E i \in NewTasks : HasVal(queue[i].delay)

\* C12: between a call of Init and the next one the broadcast is sent at
\* most once and the shutdown requested at most once, and no task that has
\* fired is in the queue.
C12_OneShot ==
    /\ sent.broadcasts <= 1
    /\ sent.shutdowns <= 1
    /\ \A i \in 1..Len(queue) : \A f \in fires : f.gen # queue[i].gen

\* C12 witness: OnUpdate has run again after the call that fired the task.
C12_Witness ==
    /\ op = "OnUpdate"
    /\ isEnableModule
    /\ sent = [ broadcasts |-> 1, shutdowns |-> 1 ]
    /\ calls = << >>
    /\ queue = << >>

\* C13: while the last Init left the module disabled (Enabled = false, a
\* malformed time, a component out of range), a call of OnUpdate fires
\* nothing and leaves the queue and the scheduler's clock as they are.
C13_DisabledUpdateIsNoOp ==
    [][ (last.path # "armed" /\ tickCount' = tickCount + 1) =>
            /\ queue' = queue
            /\ schedNow' = schedNow
            /\ hostShutdown' = hostShutdown
            /\ fires' = fires
            /\ sent' = sent
            /\ calls' = << >> ]_vars

\* C13 witness: OnUpdate has run on a disabled module whose queue holds the
\* task of an Init that read a component out of range.
C13_Witness ==
    /\ op = "OnUpdate"
    /\ last.path = "range"
    /\ ~isEnableModule
    /\ NewTasks # { }
    /\ calls = << >>

\* C14 as stated: a call OnUpdate(0) fires no task and leaves the queue
\* unchanged.
C14_ZeroTickIsNoOp ==
    [][ ZeroTick => (queue' = queue /\ calls' = << >>) ]_vars

\* C14 amended: OnUpdate(0) fires no task and leaves the queue unchanged,
\* except as the first call of OnUpdate after an Init that armed the module
\* with a task of delay 0, which it fires.
C14_ZeroTickAmended ==
    [][ ZeroTick =>
            IF isEnableModule /\ op = "Init" /\ last.diffToPreAnnounce = U32(0)
            THEN /\ queue' = << >>
                 /\ Len(calls') = 2
                 /\ [ gen |-> initCount, after |-> initCount ] \in fires'
            ELSE /\ queue' = queue
                 /\ calls' = << >>
                 /\ fires' = fires ]_vars

\* C14 witness: a task has fired although the scheduler's clock never moved.
C14_Witness ==
    /\ op = "OnUpdate"
    /\ schedNow = 0
    /\ fires # { }
    /\ queue = << >>

\* C15 as stated: right after an Init that arms the module the queue holds
\* exactly two tasks.
C15_TwoTasks ==
    AfterInit({ "armed" }) => Len(queue) = 2

\* C15 amended: every Init that arms the module enqueues exactly one task,
\* which announces and requests the shutdown; right after it the queue
\* holds exactly that task.
C15_OneTask ==
    AfterInit({ "armed" }) =>
        /\ Len(queue) = 1
        /\ NewTasks = { 1 }

\* C15 witness: a re-initialization that arms the module.
C15_Witness ==
    /\ AfterInit({ "armed" })
    /\ initCount >= 2
    /\ last.before = "armed"
    /\ Len(queue) = 1

\* C16: with Enabled true, "04:00:00" is accepted as (4, 0, 0) and leaves
\* the module enabled; "4:0:0", "04:00", "ab:00:00", "25:00:00", "00:60:00"
\* and "00:00:60" each leave it disabled.
C16_TimeStringValidation ==
    (op = "Init" /\ last.enabled) =>
        /\ last.configTime = T_0400 =>
              /\ isEnableModule
              /\ last.hour = 4 /\ last.minute = 0 /\ last.second = 0
        /\ last.configTime \in
               { T_400, T_0400short, T_ab, T_25, T_min60, T_sec60 } =>
              ~isEnableModule

\* C17: a firing task sends the broadcast and then requests the shutdown
\* with SHUTDOWN_EXIT_CODE and the lead time of that broadcast; Init itself
\* requests no shutdown.
C17_BroadcastThenShutdown ==
    /\ op = "Init" => CountCalls(calls, "ShutdownServ") = 0
    /\ op = "OnUpdate" =>
          /\ Len(calls) % 2 = 0
          /\ \A k \in 1..(Len(calls) \div 2) :
                /\ calls[2 * k - 1].call = "SendServerMessage"
                /\ calls[2 * k].call = "ShutdownServ"
                /\ calls[2 * k].arg = calls[2 * k - 1].arg
                /\ calls[2 * k].exitCode = SHUTDOWN_EXIT_CODE
          /\ calls # << >> =>
                /\ calls[1].arg = last.preAnnounceSeconds
                /\ hostShutdown = [ pending |-> TRUE,
                                    delay |-> calls[Len(calls)].arg,
                                    exitCode |-> SHUTDOWN_EXIT_CODE ]

C17_Witness ==
    /\ op = "OnUpdate"
    /\ Len(calls) = 2
    /\ hostShutdown.pending
    /\ hostShutdown.delay = U32(500)

\* C18: once an Init has left the module enabled, and unless another Init
\* follows, the task it enqueued fires in the end; and a task fires only
\* when the time passed on the scheduler's clock since it was enqueued has
\* reached its delay.
C18_FiresInTheEnd ==
    /\ \A g \in 1..MaxInits :
          (initCount = g /\ isEnableModule) ~>
              (initCount # g \/ [ gen |-> g, after |-> g ] \in fires)
    /\ [][ (initCount' = initCount /\ Len(queue') < Len(queue)) =>
              \A i \in 1..(Len(queue) - Len(queue')) :
                  /\ HasVal(queue[i].delay)
                  /\ schedNow' - queue[i].start >=
                         Val(queue[i].delay) * IN_MILLISECONDS ]_vars

\* C18 witness: a task with a delay of 1800 seconds has fired.
C18_Witness ==
    /\ isEnableModule
    /\ last.diffToPreAnnounce = U32(1800)
    /\ [ gen |-> initCount, after |-> initCount ] \in fires
    /\ schedNow >= 1800 * IN_MILLISECONDS

\* C19: an Init that reads a valid enabled configuration after an Init that
\* left the module disabled arms the module as a first Init does: module
\* enabled, no shutdown pending in the host, and in the queue exactly the
\* task it enqueued, with its delay and lead time.
C19_RecoveryAfterFailedInit ==
    (AfterInit({ "armed" }) /\ last.before \in Failed) =>
        /\ isEnableModule
        /\ ~hostShutdown.pending
        /\ sent = NoneSent
        /\ queue = << [ start |-> schedNow,
                        delay |-> last.diffToPreAnnounce,
                        lead |-> last.preAnnounceSeconds,
                        gen |-> initCount ] >>

\* C19 witness: the module is armed again after an Init that read a
\* malformed time, which followed an earlier Init.
C19_Witness ==
    /\ AfterInit({ "armed" })
    /\ last.before \in { "tokens", "convert" }
    /\ initCount >= 3
    /\ Len(queue) = 1

\* C20: the queue never holds more than one task.
C20_AtMostOneTask ==
    Len(queue) <= 1

\* C20 witness: a task is pending after repeated calls of Init and OnUpdate.
C20_Witness ==
    /\ initCount >= 3
    /\ tickCount >= 2
    /\ Len(queue) = 1

====
